---- MODULE Spec2Model ----
(***************************************************************************)
(* Model of noise_fns/cache.rs: Cache<Source>, the single-slot memoizing   *)
(* adapter in front of a NoiseFn<f64, DIM> source.                         *)
(*                                                                         *)
(* f64 coordinates and scalars are modelled by a small set of IEEE-754     *)
(* values, kept distinct as values (bit patterns) and compared the way     *)
(* f64's PartialEq compares them: NaN is unequal to everything, itself     *)
(* included, and -0.0 equals 0.0.                                          *)
(***************************************************************************)
EXTENDS Integers, Sequences, FiniteSets

\* ---------------------------------------------------------------- bounds
\* Longest run of Cache::get calls explored on one adapter.
MaxCalls == 3

\* Largest DIM for which a source implements NoiseFn<f64, DIM>.
MaxDim == 2

\* Longest run of operations explored on an adapter and its clone.
MaxOps == 4

\* ------------------------------------------------------------ f64 values
\* Coordinate values a query may carry.
F64 == {"-0.0", "0.0", "1.0", "NaN"}

is_nan(x) == x = "NaN"

\* f64's PartialEq::eq on the modelled values.
f64_eq(x, y) ==
    /\ ~is_nan(x)
    /\ ~is_nan(y)
    /\ \/ x = y
       \/ {x, y} = {"-0.0", "0.0"}

\* x * 2.0
f64_double(x) ==
    CASE x = "1.0" -> "2.0"
      [] OTHER -> x

\* 1.0 / x
f64_recip(x) ==
    CASE x = "0.0" -> "inf"
      [] x = "-0.0" -> "-inf"
      [] OTHER -> x

\* x >= 1.0
f64_ge_one(x) == x = "1.0"

\* Values explored for the coordinates after the first: enough to make two
\* arrays differ, or fail to compare equal, in a later element.
F64Tail == {"0.0", "NaN"}

\* [f64; DIM] for one DIM, and for every DIM of a set.
Array(dim) ==
    {p \in [1..dim -> F64] : \A i \in 2..dim : p[i] \in F64Tail}

Points(dims) == UNION {Array(d) : d \in dims}

\* -------------------------------------------------------------- sources
\* Option<f64>
None == <<>>

Some(v) == <<v>>

\* The wrapped sources explored.  "double" is the scenario source
\* (coordinates[0] * 2.0) and, like the crate's generators, implements
\* NoiseFn for several DIM; so does "bounded" (coordinates[0] * 2.0,
\* panicking on coordinates[0] >= 1.0); "recip" (1.0 / coordinates[0])
\* implements it for DIM = 1 only.  Every source is a deterministic
\* function of its input.
Sources == {"double", "recip", "bounded"}

\* The DIMs for which `Source: NoiseFn<f64, DIM>` holds.
SourceDims(src) ==
    IF src = "recip" THEN {1} ELSE 1..MaxDim

\* Whether Source::get(p) panics.
SourcePanics(src, p) ==
    src = "bounded" /\ f64_ge_one(p[1])

\* Source::get(p), where it returns.
SourceGet(src, p) ==
    IF src = "recip" THEN f64_recip(p[1]) ELSE f64_double(p[1])

\* A source that never fails on the queries it accepts.
SourceTotal(src) ==
    \A p \in Points(SourceDims(src)) : ~SourcePanics(src, p)

\* ---------------------------------------------------------------- state
VARIABLES
    source,     \* Cache::source
    value,      \* Cache::value, Cell<Option<f64>>
    point,      \* Cache::point, RefCell<Vec<f64>>
    srcCalls,   \* number of Source::get invocations made by the adapter
    srcArg,     \* argument of the latest Source::get invocation, if any
    hist        \* the Cache::get calls made so far and their outcomes

VARIABLES
    clone,      \* the adapter made by Cache::clone, once there is one
    ops,        \* number of operations made on the adapter and its clone
    ev          \* the latest of these operations and its outcome

VARIABLES
    outer,      \* entry of a Cache<Cache<Source>> wrapping the same source
    inner,      \* entry of the Cache<Source> it wraps
    nestCalls,  \* number of Source::get invocations made through the two
    innerHit,   \* whether the wrapped adapter has ever taken its hit arm
    nestEv      \* outcome of the latest Cache::get on the outer adapter

\* The nested pair of adapters.
nest == <<outer, inner, nestCalls, innerHit, nestEv>>

\* The state beside the adapter itself.
ext == <<clone, ops, ev, nest>>

vars ==
    <<source, value, point, srcCalls, srcArg, hist, clone, ops, ev,
      outer, inner, nestCalls, innerHit, nestEv>>

\* Cache::new starting from a defaulted scalar instead of an empty one.
Cache_new_defaulted == [value |-> Some("0.0"), point |-> <<>>]

\* Cache::new
Cache_new == [value |-> None, point |-> <<>>]

\* Iterator::ne in place of Iterator::eq.
iter_ne(a, b) ==
    /\ Len(a) = Len(b)
    /\ \E i \in 1..Len(a) : ~f64_eq(a[i], b[i])

\* Iterator::eq over two slices of f64
iter_eq(a, b) ==
    /\ Len(a) = Len(b)
    /\ \A i \in 1..Len(a) : f64_eq(a[i], b[i])

\* quick_eq without its assert_eq!: Iterator::eq takes slices of different
\* lengths for unequal.
quick_eq_unasserted(a, b) ==
    IF iter_eq(a, b) THEN "true" ELSE "false"

\* quick_eq: the length assertion, then the element-wise comparison.
quick_eq(a, b) ==
    IF Len(a) # Len(b) THEN "panic"
    ELSE IF iter_eq(a, b) THEN "true" ELSE "false"

\* The first arm taken for every Some, its guard forgotten.
GetArm_unguarded(val, pt, p) ==
    IF val = None THEN "miss" ELSE "hit"

\* The arm of the match in Cache::get taken for query p.  The guard
\* (quick_eq) is evaluated only when the value is Some.
GetArm(val, pt, p) ==
    IF val = None THEN "miss"
    ELSE CASE quick_eq(pt, p) = "panic" -> "assert_panic"
           [] quick_eq(pt, p) = "true" -> "hit"
           [] OTHER -> "miss"

\* Whether Cache::get evaluates quick_eq for the current entry.
GuardEvaluated(val) == val # None

\* The miss arm clearing the point without extending it.
MissEntry_cleared(v, p) == [value |-> Some(v), point |-> <<>>]

\* The entry written by the miss arm once Source::get has returned v.
MissEntry(v, p) == [value |-> Some(v), point |-> p]

\* The miss arm resetting the scalar before it calls the source.
SourcePanicEntry_reset(val, pt, p) == [value |-> None, point |-> pt]

\* The entry left behind when Source::get panics inside the miss arm: the
\* panic unwinds before value.set and before the point is borrowed.
SourcePanicEntry(val, pt, p) == [value |-> val, point |-> pt]

\* The hit arm storing the query's coordinates again.
HitEntry_refreshed(val, pt, p) == [value |-> val, point |-> p]

\* The entry after the hit arm, which writes nothing.
HitEntry(val, pt, p) == [value |-> val, point |-> pt]

\* The source evaluated before the match, on every call that gets there.
CallsSource_always(arm) == arm \in {"hit", "miss"}

\* Whether the arm taken calls self.source.get(point).
CallsSource(arm) == arm = "miss"

\* Cache::get(p) on an entry (val, pt), given the outcome `out` that
\* self.source.get(p) has when it is called: the kind of outcome, the scalar
\* returned, the entry left behind and whether the source was invoked.
CacheGetWith(val, pt, p, out) ==
    LET arm == GetArm(val, pt, p)
    IN  CASE arm = "hit" ->
                [kind |-> "hit", ret |-> val[1],
                 entry |-> HitEntry(val, pt, p), invoked |-> CallsSource(arm)]
          [] arm = "assert_panic" ->
                [kind |-> "assert_panic", ret |-> "none",
                 entry |-> [value |-> val, point |-> pt], invoked |-> FALSE]
          [] arm = "miss" /\ out.panics ->
                [kind |-> "source_panic", ret |-> "none",
                 entry |-> SourcePanicEntry(val, pt, p),
                 invoked |-> CallsSource(arm)]
          [] OTHER ->
                [kind |-> "miss", ret |-> out.ret,
                 entry |-> MissEntry(out.ret, p), invoked |-> CallsSource(arm)]

\* The outcome of Source::get(p) for a source that is not an adapter.
SourceOutcome(src, p) ==
    [panics |-> SourcePanics(src, p), ret |-> SourceGet(src, p)]

\* Cache::get(p) on an adapter wrapping source src.
CacheGet(src, val, pt, p) == CacheGetWith(val, pt, p, SourceOutcome(src, p))

\* Cache::clone building the copy with Cache::new instead of copying.
CloneEntry_fresh(val, pt) == Cache_new

\* derive(Clone): Cell<Option<f64>> and RefCell<Vec<f64>> are copied.
CloneEntry(val, pt) == [value |-> val, point |-> pt]

\* An assignment to the source field that also empties the entry.
SetSourceEntry_invalidated(val, pt) == Cache_new

\* The entry after an assignment to the public field `source`: the private
\* fields are not touched.
SetSourceEntry(val, pt) == [value |-> val, point |-> pt]

\* No operation yet.
NoEvent ==
    [op |-> "none", who |-> "none", p |-> <<>>, kind |-> "none",
     ret |-> "none", prev |-> "none"]

\* One record of the call history.
Call(p, kind, cmp, v, n) ==
    [p |-> p, kind |-> kind, cmp |-> cmp, val |-> v, calls |-> n]

Init ==
    /\ source \in Sources
    /\ value = Cache_new.value
    /\ point = Cache_new.point
    /\ srcCalls = 0
    /\ srcArg = None
    /\ hist = <<>>
    /\ clone = <<>>
    /\ ops = 0
    /\ ev = NoEvent
    /\ outer = Cache_new
    /\ inner = Cache_new
    /\ nestCalls = 0
    /\ innerHit = FALSE
    /\ nestEv = [kind |-> "none", ret |-> "none"]

\* Cache::get(p), first arm: the stored scalar is returned.
GetHit(p) ==
    /\ Len(hist) < MaxCalls
    /\ GetArm(value, point, p) = "hit"
    /\ hist' = Append(hist, Call(p, "hit", GuardEvaluated(value), value[1], srcCalls))
    /\ UNCHANGED <<source, value, point, srcCalls, srcArg>>

\* Cache::get(p), second arm, Source::get returns.
GetMiss(p) ==
    /\ Len(hist) < MaxCalls
    /\ GetArm(value, point, p) = "miss"
    /\ ~SourcePanics(source, p)
    /\ LET v == SourceGet(source, p)
           e == MissEntry(v, p)
       IN  /\ value' = e.value
           /\ point' = e.point
           /\ srcCalls' = srcCalls + 1
           /\ srcArg' = Some(p)
           /\ hist' = Append(hist, Call(p, "miss", GuardEvaluated(value), v, srcCalls + 1))
    /\ UNCHANGED source

\* Cache::get(p), second arm, Source::get panics.
GetSourcePanic(p) ==
    /\ Len(hist) < MaxCalls
    /\ GetArm(value, point, p) = "miss"
    /\ SourcePanics(source, p)
    /\ LET e == SourcePanicEntry(value, point, p)
       IN  /\ value' = e.value
           /\ point' = e.point
    /\ srcCalls' = srcCalls + 1
    /\ srcArg' = Some(p)
    /\ hist' = Append(hist, Call(p, "source_panic", GuardEvaluated(value), "none", srcCalls + 1))
    /\ UNCHANGED source

\* Cache::get(p), the assert_eq! of quick_eq fails while the guard of the
\* first arm is evaluated; the temporary borrow of the point is released by
\* the unwinding and nothing is written.
GetAssertPanic(p) ==
    /\ Len(hist) < MaxCalls
    /\ GetArm(value, point, p) = "assert_panic"
    /\ hist' = Append(hist, Call(p, "assert_panic", GuardEvaluated(value), "none", srcCalls))
    /\ UNCHANGED <<source, value, point, srcCalls, srcArg>>

\* The arrays a caller can pass: those of a DIM the source supports.
Queries == Points(SourceDims(source))

Next ==
    \/ \E p \in Queries : GetHit(p) /\ UNCHANGED ext
    \/ \E p \in Queries : GetMiss(p) /\ UNCHANGED ext
    \/ \E p \in Queries : GetSourcePanic(p) /\ UNCHANGED ext
    \/ \E p \in Queries : GetAssertPanic(p) /\ UNCHANGED ext

Spec == Init /\ [][Next]_vars

\* ------------------------------------------- an adapter and its clone
\* Cache::get(p) on the adapter.
OpsGet(p) ==
    /\ ops < MaxOps
    /\ LET r == CacheGet(source, value, point, p)
       IN  /\ value' = r.entry.value
           /\ point' = r.entry.point
           /\ srcCalls' = IF r.invoked THEN srcCalls + 1 ELSE srcCalls
           /\ srcArg' = IF r.invoked THEN Some(p) ELSE srcArg
           /\ ev' = [op |-> "get", who |-> "a", p |-> p, kind |-> r.kind,
                     ret |-> r.ret, prev |-> ev.op]
    /\ ops' = ops + 1
    /\ UNCHANGED <<source, hist, clone>>

\* Cache::clone on the adapter (derive(Clone)): source and entry are copied.
OpsClone ==
    /\ ops < MaxOps
    /\ clone = <<>>
    /\ LET e == CloneEntry(value, point)
       IN  clone' = <<[source |-> source, value |-> e.value, point |-> e.point]>>
    /\ ev' = [NoEvent EXCEPT !.op = "clone", !.who = "a", !.prev = ev.op]
    /\ ops' = ops + 1
    /\ UNCHANGED <<source, value, point, srcCalls, srcArg, hist>>

\* Cache::get(p) on the clone.
OpsCloneGet(p) ==
    /\ ops < MaxOps
    /\ clone # <<>>
    /\ LET c == clone[1]
           r == CacheGet(c.source, c.value, c.point, p)
       IN  /\ clone' = <<[source |-> c.source, value |-> r.entry.value,
                          point |-> r.entry.point]>>
           /\ ev' = [op |-> "get", who |-> "b", p |-> p, kind |-> r.kind,
                     ret |-> r.ret, prev |-> ev.op]
    /\ ops' = ops + 1
    /\ UNCHANGED <<source, value, point, srcCalls, srcArg, hist>>

\* adapter.source = s, for another source s of the adapter's Source type.
OpsSetSource(s) ==
    /\ ops < MaxOps
    /\ s # source
    /\ SourceDims(s) = SourceDims(source)
    /\ source' = s
    /\ LET e == SetSourceEntry(value, point)
       IN  /\ value' = e.value
           /\ point' = e.point
    /\ ev' = [NoEvent EXCEPT !.op = "set_source", !.who = "a", !.prev = ev.op]
    /\ ops' = ops + 1
    /\ UNCHANGED <<srcCalls, srcArg, hist, clone>>

NextOps ==
    \/ \E p \in Queries : OpsGet(p) /\ UNCHANGED nest
    \/ OpsClone /\ UNCHANGED nest
    \/ \E p \in Queries : OpsCloneGet(p) /\ UNCHANGED nest
    \/ \E s \in Sources : OpsSetSource(s) /\ UNCHANGED nest

SpecOps == Init /\ [][NextOps]_vars

\* ------------------------------------------------- nested adapters
\* Cache::get(p) on the wrapped adapter, as the source of the outer one:
\* what the outer adapter gets back from self.source.get(p).
InnerOutcome(r) ==
    [panics |-> r.kind \notin {"hit", "miss"}, ret |-> r.ret]

\* Cache::get(p) on the outer adapter of Cache<Cache<Source>>: its second
\* arm calls Cache::get(p) of the wrapped adapter, which calls Source::get.
NestedGet(p) ==
    LET called == CallsSource(GetArm(outer.value, outer.point, p))
        ri == CacheGet(source, inner.value, inner.point, p)
        ro == CacheGetWith(outer.value, outer.point, p, InnerOutcome(ri))
    IN  /\ outer' = ro.entry
        /\ inner' = IF called THEN ri.entry ELSE inner
        /\ nestCalls' = IF called /\ ri.invoked THEN nestCalls + 1 ELSE nestCalls
        /\ innerHit' = (innerHit \/ (called /\ ri.kind = "hit"))
        /\ nestEv' = [kind |-> ro.kind, ret |-> ro.ret]

\* The same query made to Cache<Source> and to Cache<Cache<Source>>.
BothGet(p) ==
    /\ OpsGet(p)
    /\ NestedGet(p)

NextNest == \E p \in Queries : BothGet(p)

SpecNest == Init /\ [][NextNest]_vars

\* ------------------------------------------------------------- helpers
\* The latest call and the one before it.
Last == hist[Len(hist)]

Prev == hist[Len(hist) - 1]

\* The call returned a scalar.
Returned(c) == c.kind \in {"hit", "miss"}

\* `a != b` on coordinate slices.
slice_ne(a, b) == ~iter_eq(a, b)

has_nan(p) == \E i \in 1..Len(p) : is_nan(p[i])

\* Two scalars a caller cannot tell apart by comparing them: the same value,
\* or values that f64's == takes for equal.
same_scalar(a, b) == a = b \/ f64_eq(a, b)

\* Two coordinate slices a caller cannot tell apart by comparing them
\* element by element.
same_point(a, b) ==
    /\ Len(a) = Len(b)
    /\ \A i \in 1..Len(a) : same_scalar(a[i], b[i])

\* The calls after the first whose query differs from the query before it.
Changes == {i \in 2..Len(hist) : slice_ne(hist[i - 1].p, hist[i].p)}

TypeOK ==
    /\ source \in Sources
    /\ value = None \/ Len(value) = 1
    /\ point \in Points(0..MaxDim)
    /\ srcCalls \in 0..MaxCalls
    /\ Len(hist) <= MaxCalls

\* --------------------------------------------------------------- claims
\* C1: transparency.  Every Cache::get call that returns, returns the scalar
\* Source::get produces for the coordinates of that call, whatever the
\* earlier calls were (hit or miss).
C1_Transparency ==
    \A i \in 1..Len(hist) :
        Returned(hist[i])
            => same_scalar(hist[i].val, SourceGet(source, hist[i].p))

\* C2 as stated: for every coordinate tuple, a query repeated right after a
\* call that returned v1 returns v1 again without a further source call.
C2_HitCorrectness_AnyTuple ==
    (Len(hist) >= 2 /\ Returned(Prev) /\ Last.p = Prev.p)
        => /\ Last.kind = "hit"
           /\ Last.val = Prev.val
           /\ Last.calls = Prev.calls

\* C2 as amended: for every coordinate tuple none of whose elements is NaN,
\* a query repeated right after a call that returned v1 returns v1 again
\* and the source's invocation count does not increase.
C2_HitCorrectness ==
    (Len(hist) >= 2 /\ Returned(Prev) /\ Last.p = Prev.p /\ ~has_nan(Last.p))
        => /\ Last.kind = "hit"
           /\ Last.val = Prev.val
           /\ Last.calls = Prev.calls

\* A NaN-free query of the largest DIM was repeated and answered from the entry.
C2_Witness ==
    /\ Len(hist) >= 2
    /\ Returned(Prev)
    /\ Last.p = Prev.p
    /\ ~has_nan(Last.p)
    /\ Len(Last.p) = MaxDim
    /\ Last.kind = "hit"

\* C3: miss on change.  With a source that never fails, a query that differs
\* from the query of the previous (returned) call invokes the source exactly
\* once more, with the new coordinates, and returns the source's result.
C3_MissOnChange ==
    (/\ Len(hist) >= 2
     /\ SourceTotal(source)
     /\ Returned(Prev)
     /\ slice_ne(Prev.p, Last.p))
        => /\ Last.kind = "miss"
           /\ Last.calls = Prev.calls + 1
           /\ srcArg = Some(Last.p)
           /\ Last.val = SourceGet(source, Last.p)

\* C4: single-slot eviction.  With a source that never fails, on a fresh
\* adapter the sequence get(c1), get(c2), get(c1) with c1 != c2 ends in a
\* miss and costs three source invocations.
C4_SingleSlotEviction ==
    (/\ Len(hist) = 3
     /\ SourceTotal(source)
     /\ hist[3].p = hist[1].p
     /\ slice_ne(hist[1].p, hist[2].p))
        => /\ hist[3].kind = "miss"
           /\ srcCalls = 3

\* C5: the first Cache::get on an adapter built by Cache::new is never a hit
\* and never reaches quick_eq: the guard is not evaluated, the source is
\* invoked exactly once, and when it returns, its result is what the call
\* returns.
C5_FirstCallMiss ==
    Len(hist) >= 1
        => /\ hist[1].kind \in {"miss", "source_panic"}
           /\ ~hist[1].cmp
           /\ hist[1].calls = 1
           /\ (hist[1].kind = "miss"
                  => hist[1].val = SourceGet(source, hist[1].p))

\* The first call has been made, with a query of the largest DIM.
C5_Witness ==
    /\ Len(hist) = 1
    /\ hist[1].kind = "miss"
    /\ Len(hist[1].p) = MaxDim
    /\ srcCalls = 1

\* C6: source-invocation count.  With a source that never fails, the number
\* of source invocations is one for the first call plus one for every later
\* call whose query differs from the query of the call right before it.
C6_InvocationCount ==
    (SourceTotal(source) /\ hist # <<>>)
        => srcCalls = 1 + Cardinality(Changes)

\* C7: the adapter raises no error of its own.  With a source that never
\* fails, every Cache::get call returns a scalar.
C7_NoOwnError ==
    SourceTotal(source)
        => \A i \in 1..Len(hist) : Returned(hist[i])

\* C8: a source failure is propagated and never recorded.  A Cache::get call
\* that ends in the source's panic leaves the stored scalar and the stored
\* coordinates as they were, so the failing coordinates are still a miss
\* and the stored coordinates, if they were a hit, still are.
C8_SourceFailureNotRecorded ==
    [][(/\ Len(hist') = Len(hist) + 1
        /\ hist'[Len(hist')].kind = "source_panic")
          => /\ value' = value
             /\ point' = point
             /\ GetArm(value', point', hist'[Len(hist')].p) = "miss"
             /\ (GetArm(value, point, point) = "hit"
                    => GetArm(value', point', point) = "hit")]_vars

\* The source has failed on a query made to a populated adapter whose stored
\* coordinates are a hit.
C8_Witness ==
    /\ Len(hist) >= 2
    /\ Last.kind = "source_panic"
    /\ value # None
    /\ Last.p # point
    /\ GetArm(value, point, point) = "hit"

\* C9: pair invariant.  Between calls the entry is either empty (no scalar,
\* no coordinates) or holds a scalar together with the coordinates of the
\* query for which the source computed it.
C9_PairInvariant ==
    \/ /\ value = None
       /\ point = <<>>
    \/ /\ value # None
       /\ Len(point) \in SourceDims(source)
       /\ \E i \in 1..Len(hist) :
            /\ hist[i].kind = "miss"
            /\ hist[i].p = point
            /\ hist[i].val = value[1]
       /\ value[1] = SourceGet(source, point)

\* A populated entry has been overwritten by a later miss.
C9_Witness ==
    /\ Len(hist) >= 2
    /\ value # None
    /\ Last.kind = "miss"
    /\ Prev.kind = "miss"
    /\ Prev.p # Last.p
    /\ point = Last.p

\* C10: stored length invariant.  Whenever the entry is present, the stored
\* coordinate vector is as long as the tuple of every query the adapter has
\* received.
C10_StoredLength ==
    value # None
        => \A i \in 1..Len(hist) : Len(hist[i].p) = Len(point)

GotA == ev.op = "get" /\ ev.who = "a"

GotB == ev.op = "get" /\ ev.who = "b"

\* C12: entry lifecycle.  The entry is empty after Cache::new, is populated
\* by every Cache::get that returns, never goes from populated back to
\* empty, and is changed by no operation other than Cache::get on its own
\* adapter (not by a clone, a query of the clone or a source assignment).
C12_EntryLifecycle ==
    [][/\ (ops = 0 => value = None /\ point = <<>>)
       /\ (value # None => value' # None)
       /\ ((GotA' /\ Returned(ev')) => value' # None)
       /\ (~GotA' => value' = value /\ point' = point)
       /\ ((clone # <<>> /\ clone[1].value # None)
              => (clone' # <<>> /\ clone'[1].value # None))
       /\ ((clone # <<>> /\ ~GotB') => clone' = clone)]_vars

\* A populated entry has come through a failed query and the entry of the
\* clone through an operation on the original.
C12_Witness ==
    /\ value # None
    /\ GotA
    /\ ev.kind = "source_panic"
    /\ clone # <<>>
    /\ clone[1].value # None

\* C13: frame of a query.  Cache::get leaves the source as it is and touches
\* no other adapter; on a hit it leaves the stored scalar and the stored
\* coordinates as they were.
C13_QueryFrame ==
    [][GotA'
          => /\ source' = source
             /\ clone' = clone
             /\ (ev'.kind = "hit" => value' = value /\ point' = point)]_vars

\* A hit on a query that is not the stored array itself (-0.0 against 0.0).
C13_Witness ==
    /\ GotA
    /\ ev.kind = "hit"
    /\ ev.p # point
    /\ value = Some(ev.ret)

\* C14: a length mismatch is fatal.  A populated adapter queried with an
\* array whose length differs from the stored one aborts in the assertion
\* of quick_eq: the source is not invoked, the call is neither a hit nor a
\* miss, and the entry is left as it was.
C14_LengthMismatchFatal ==
    [][(GotA' /\ value # None /\ Len(ev'.p) # Len(point))
          => /\ ev'.kind = "assert_panic"
             /\ srcCalls' = srcCalls
             /\ srcArg' = srcArg
             /\ value' = value
             /\ point' = point]_vars

\* A query of another length has been made to a populated adapter.
C14_Witness ==
    /\ GotA
    /\ ev.kind = "assert_panic"
    /\ value # None
    /\ Len(ev.p) # Len(point)

\* What Cache::get(q) would be on the adapter and on its clone.
TryA(q) == CacheGet(source, value, point, q)

TryB(q) == CacheGet(clone[1].source, clone[1].value, clone[1].point, q)

\* C15 as stated, its remark on the copy: right after the clone of a
\* populated adapter, a query for the stored coordinates is a hit on both.
C15_CloneHitOnBoth ==
    (ev.op = "clone" /\ value # None)
        => /\ TryA(point).kind = "hit"
           /\ TryB(point).kind = "hit"

\* C15 as amended: the clone's entry starts as a copy of the original's (so a
\* query for the stored coordinates, when they hold no NaN, is a hit on
\* both, and every query has the same outcome on both), and afterwards a
\* Cache::get on either adapter never changes the entry of the other.
C15_CloneIndependence ==
    [][/\ (ev'.op = "clone"
              => /\ clone'[1].value = value
                 /\ clone'[1].point = point
                 /\ clone'[1].source = source
                 /\ value' = value
                 /\ point' = point
                 /\ \A q \in Queries : TryA(q)' = TryB(q)'
                 /\ ((value # None /\ ~has_nan(point))
                        => /\ TryA(point)'.kind = "hit"
                           /\ TryB(point)'.kind = "hit"))
       /\ ((GotA' /\ clone # <<>>) => clone' = clone)
       /\ (GotB' => value' = value /\ point' = point /\ source' = source)]_vars

\* Clone and original hold different entries after a miss on the clone.
C15_Witness ==
    /\ clone # <<>>
    /\ GotB
    /\ ev.kind = "miss"
    /\ value # None
    /\ clone[1].point # point
    /\ clone[1].value # value

\* C17 as stated: after an assignment to `source`, the next Cache::get with
\* the stored coordinates is a hit that returns the stored scalar without
\* invoking the new source.
C17_ReplacedSourceHit_AnyTuple ==
    [][(ev.op = "set_source" /\ GotA' /\ value # None /\ ev'.p = point)
          => /\ ev'.kind = "hit"
             /\ ev'.ret = value[1]
             /\ srcCalls' = srcCalls]_vars

\* C17 as amended: an assignment to `source` leaves the stored scalar and the
\* stored coordinates unchanged, so the next Cache::get with the stored
\* coordinates, when they hold no NaN, is a hit that returns the scalar
\* computed before the assignment without invoking the new source; a query
\* that reaches the new source differs from the stored coordinates.
C17_ReplacedSourceHit ==
    [][/\ (ev'.op = "set_source"
              => /\ value' = value
                 /\ point' = point
                 /\ source' # source)
       /\ ((/\ ev.op = "set_source"
            /\ GotA'
            /\ value # None
            /\ ev'.p = point
            /\ ~has_nan(point))
              => /\ ev'.kind = "hit"
                 /\ ev'.ret = value[1]
                 /\ value' = value
                 /\ srcCalls' = srcCalls)
       /\ ((/\ ev.op = "set_source"
            /\ GotA'
            /\ value # None
            /\ srcCalls' # srcCalls)
              => slice_ne(point, ev'.p))]_vars

\* After the assignment a hit has returned a scalar of the previous source
\* for coordinates on which the new source panics.
C17_Witness ==
    /\ GotA
    /\ ev.prev = "set_source"
    /\ ev.kind = "hit"
    /\ value = Some(ev.ret)
    /\ SourcePanics(source, ev.p)

\* C16: nesting equivalence.  For every sequence of queries an adapter
\* wrapping an adapter wrapping S gives the outcomes and returned values of
\* a single adapter wrapping S and invokes S as many times; the wrapped
\* adapter never takes its hit arm.
C16_NestingEquivalence ==
    /\ nestEv.kind = ev.kind
    /\ nestEv.ret = ev.ret
    /\ nestCalls = srcCalls
    /\ ~innerHit
    /\ outer = [value |-> value, point |-> point]

\* The outer adapter has answered a query from its entry after both
\* adapters were filled by a miss that went through to S.
C16_Witness ==
    /\ ops >= 2
    /\ nestEv.kind = "hit"
    /\ nestCalls >= 1
    /\ inner.value # None
    /\ inner = outer
====
